---- MODULE Spec2Model ----
(***************************************************************************)
(* Appointment lifecycle of the consultation-booking backend: the          *)
(* Appointment documents of the record store, the request handlers of      *)
(* routes/appointments.js, routes/payments.js, routes/videoCall.js and     *)
(* routes/admin.js that read and write them, and the middleware that       *)
(* authenticates the requests.                                             *)
(*                                                                         *)
(* A handler that loads a document, changes it in memory and saves it is   *)
(* two steps (XxxLoad, XxxSave): the handler is suspended at the await of  *)
(* save() and other requests run in between.  save() of an existing        *)
(* document validates and writes only the paths the handler modified.      *)
(* A handler that issues one findByIdAndUpdate is one step.                *)
(*                                                                         *)
(* Time is counted in hours.  A Date is the number of hours since the      *)
(* start of the model's calendar.                                          *)
(***************************************************************************)
EXTENDS Integers, Sequences, FiniteSets, Bags, TLC

\* ---------------------------------------------------------------- bounds
MaxNow == 1          \* requests arrive in the hours 0 .. MaxNow; the
                     \* clock runs on to the hour the last timer is due
MaxReq == 3          \* requests issued in a run of LifecycleSpec
MaxObserved == 2     \* requests issued in a run of Spec
MaxInflight == 1     \* handlers suspended between load and save
MaxFair == 2         \* requests issued in a run of FairSpec
MaxRace == 4         \* requests issued in a run of RaceSpec

\* ------------------------------------------------------------- constants
NoTime == -1         \* a Date path that is not set
NoRating == 0        \* rating absent from the request body / the document
NULL == "null"       \* a String path that is not set
NoRoom == <<>>       \* videoCall.roomName / roomUrl not set

Clients == {"u1", "u2"}
Admins == {"adm"}
Users == Clients \cup Admins

role(u) == IF u \in Admins THEN "admin" ELSE "client"

\* ids of the documents in the store, and one id that resolves to nothing
AptIds == {1}
MissingId == 2
ReqIds == AptIds \cup {MissingId}

\* The hour of the appointmentDate of the bookings.
BookedDate == 2

StatusEnum == {"pending", "confirmed", "completed", "cancelled"}
PaymentStatusEnum == {"pending", "completed", "failed", "refunded"}
RatingMin == 1
RatingMax == 5

\* ------------------------------------------------ the Appointment document
\* Paths of the Appointment schema.  roomName, roomUrl, isActive, startedAt
\* and endedAt are the sub-paths of the nested path videoCall.
VideoCallPaths == {"roomName", "roomUrl", "isActive", "startedAt", "endedAt"}

\* The time-of-day slots offered for a working day, in this order.
slots == <<"17:00", "17:30", "18:00", "18:30", "19:00", "19:30">>

\* Minutes after midnight of a slot's HH:MM string.
SlotMinutes(t) ==
  CASE t = "17:00" -> 1020 [] t = "17:30" -> 1050 [] t = "18:00" -> 1080
    [] t = "18:30" -> 1110 [] t = "19:00" -> 1140 [] t = "19:30" -> 1170

\* The document new Appointment({...}) builds for a booking: status and
\* paymentStatus pending, no room, no rating.
NewAppointment(u, date, time, pkg, price, dur) ==
  [ user |-> u, appointmentDate |-> date, appointmentTime |-> time,
    package |-> pkg, amount |-> price, duration |-> dur,
    status |-> "pending", paymentStatus |-> "pending",
    roomName |-> NoRoom, roomUrl |-> NoRoom, isActive |-> FALSE,
    startedAt |-> NoTime, endedAt |-> NoTime,
    notes |-> NULL, rating |-> NoRating, review |-> NULL ]

\* Validators of the schema for the paths the handlers write.
ValidPath(f, v) ==
  CASE f = "status" -> v \in StatusEnum
    [] f = "paymentStatus" -> v \in PaymentStatusEnum
    [] f = "rating" -> (v = NoRating \/ (v >= RatingMin /\ v <= RatingMax))
    [] OTHER -> TRUE

\* ------------------------------------------------------------------ state
VARIABLES
  store,      \* the Appointment collection: id -> document
  active,     \* users whose isActive flag is true
  now,        \* the clock, in hours
  inflight,   \* bag of the handlers suspended at the await of save()
  timers,     \* room names with a pending setTimeout teardown
  budget,     \* requests the clients will still issue
  resp        \* the response most recently sent, when responses are recorded

vars == <<store, active, now, inflight, timers, budget, resp>>

\* ------------------------------------------------------- mongoose document
\* Variant of ModifiedPaths in which save() writes every path of the
\* document.
ModifiedPathsAll(loaded, mutated) == DOMAIN loaded

\* Paths whose value the handler changed after loading the document.
ModifiedPaths(loaded, mutated) ==
  {f \in DOMAIN loaded : mutated[f] # loaded[f]}

\* Assigning an object to the nested path videoCall replaces the nested
\* object: all of its sub-paths are written when any of them differs.
ModifiedPathsNested(loaded, mutated) ==
  LET m == ModifiedPaths(loaded, mutated)
  IN  IF m \cap VideoCallPaths # {} THEN m \cup VideoCallPaths ELSE m

Delta(mutated, paths) == [f \in paths |-> mutated[f]]

\* save() validates the modified paths.
ValidDelta(delta) == \A f \in DOMAIN delta : ValidPath(f, delta[f])

\* save() and findByIdAndUpdate $set the given paths on the stored document.
ApplyUpdate(doc, delta) ==
  [f \in DOMAIN doc |-> IF f \in DOMAIN delta THEN delta[f] ELSE doc[f]]

\* findById resolves exactly the ids of stored documents.
Exists(id) == id \in DOMAIN store

\* -------------------------------------------------------------- middleware
\* authenticate (routes/appointments.js, routes/payments.js): the token's
\* signature is verified and req.user = { id }, nothing is looked up.
authenticate(u) == u \in Users

\* auth (middleware/auth): the token's user must exist and be active;
\* req.user is the user document, role included.
auth(u) == u \in Users /\ u \in active

adminOnly(u) == role(u) = "admin"
clientOnly(u) == role(u) = "client"

\* ------------------------------------------------------------ video bridge
\* What a handler asked of the video bridge (services/dailyService) and
\* whether the bridge answered or threw.  NoCall: the handler made no call.
NoCall ==
  [fn |-> "none", roomName |-> NoRoom, is_owner |-> FALSE,
   enable_recording |-> FALSE, ok |-> TRUE]

\* `consultation-${appointmentId}`
RoomNameOf(id) == <<"consultation-", id>>
\* The url the provider answers for the room of that name.
RoomUrlOf(id) == <<"https://daily.co/consultation-", id>>

\* dailyService.createRoom(appointmentId, expiry): POST /rooms with the name
\* made from the appointment id.
createRoom(id, ok) ==
  [fn |-> "createRoom", roomName |-> RoomNameOf(id), is_owner |-> FALSE,
   enable_recording |-> FALSE, ok |-> ok]

\* Variant of createMeetingToken that gives every token the owner
\* privileges and the recording permission.
createMeetingTokenElevated(roomName, userRole, ok) ==
  [fn |-> "createMeetingToken", roomName |-> roomName, is_owner |-> TRUE,
   enable_recording |-> TRUE, ok |-> ok]

\* dailyService.createMeetingToken(roomName, userName, userRole): POST
\* /meeting-tokens with is_owner and enable_recording set for 'admin' only.
createMeetingToken(roomName, userRole, ok) ==
  [fn |-> "createMeetingToken", roomName |-> roomName,
   is_owner |-> (userRole = "admin"),
   enable_recording |-> (userRole = "admin"), ok |-> ok]

\* --------------------------------------------------------------- responses
NoResp == [op |-> "none", actor |-> NULL, apt |-> 0, arg |-> NULL,
           outcome |-> "none", bridge |-> NoCall, seq |-> 0]

\* Value of resp in the runs that do not record the responses.
Unrecorded == [op |-> "unrecorded", actor |-> NULL, apt |-> 0, arg |-> NULL,
               outcome |-> "none", bridge |-> NoCall, seq |-> 0]

\* res.status(..).json(..) of a handler that made the bridge call `call`:
\* the responses are numbered as they are sent.
RespondWith(op, u, id, arg, outcome, call) ==
  resp' = IF resp = Unrecorded THEN Unrecorded
          ELSE [op |-> op, actor |-> u, apt |-> id, arg |-> arg,
                outcome |-> outcome, bridge |-> call, seq |-> resp.seq + 1]

\* The response of a handler that called no bridge.
Respond(op, u, id, arg, outcome) ==
  RespondWith(op, u, id, arg, outcome, NoCall)

\* A new request is accepted while the request budget lasts.
Accept == budget > 0 /\ now <= MaxNow /\ budget' = budget - 1

\* A handler suspended at save(): the paths it will write and the bridge
\* call it made before.
SuspendWith(op, u, id, arg, delta, call) ==
  /\ BagCardinality(inflight) < MaxInflight
  /\ inflight' = inflight (+)
       SetToBag({[op |-> op, actor |-> u, apt |-> id, arg |-> arg,
                  delta |-> delta, bridge |-> call]})

Suspend(op, u, id, arg, delta) == SuspendWith(op, u, id, arg, delta, NoCall)

Suspended == BagToSet(inflight)

\* The handler r leaves the bag.
Resume(r) == inflight' = inflight (-) SetToBag({r})

\* save() of a suspended handler: a validation error, or the error of a
\* store that does not carry out the write (writeOk false), is caught by the
\* handler and answered with status 500, nothing is written; otherwise the
\* modified paths are $set on the stored document.
SaveWith(r, writeOk) ==
  /\ r \in Suspended
  /\ Resume(r)
  /\ IF ValidDelta(r.delta) /\ writeOk
       THEN /\ store' = [store EXCEPT ![r.apt] = ApplyUpdate(@, r.delta)]
            /\ RespondWith(r.op, r.actor, r.apt, r.arg, "Success", r.bridge)
       ELSE /\ store' = store
            /\ RespondWith(r.op, r.actor, r.apt, r.arg, "ServerError",
                           r.bridge)
  /\ UNCHANGED <<active, now, timers, budget>>

\* save() on a store that carries out the write.
Save(r) == SaveWith(r, TRUE)

\* ------------------------------------------------------------------- clock
\* An hour passes.
Tick ==
  /\ now < MaxNow \/ \E t \in timers : now < t.due
  /\ now' = now + 1
  /\ UNCHANGED <<store, active, inflight, timers, budget, resp>>

\* ------------------------------------------------- routes/appointments.js
\* Dates the clients ask the slots of, as days since 1970-01-01 (a
\* Thursday): 2 is a Saturday, 3 a Sunday, 4 a Monday.
SlotDates == {2, 3, 4}

\* Offsets from UTC, in hours, of the time zone the server runs in.
TimeZoneOffsets == {-5, 0, 5}

\* new Date(date) of a date-only string: midnight UTC of that day, in hours.
DateOf(date) == date * 24

\* Date.prototype.getDay(): the weekday of the instant t (hours) in the
\* local time zone, 0 for Sunday.
getDay(t, tz) == (4 + ((t + tz) \div 24)) % 7

\* The availableSlots the handler answers for a date.
availableSlots(date, tz) ==
  IF getDay(DateOf(date), tz) = 0 THEN <<>> ELSE slots

\* GET /api/appointments/available-slots/:date.  No middleware: the route
\* needs no token.
AvailableSlots(date, tz) ==
  /\ Accept
  /\ Respond("AvailableSlots", NULL, 0,
             [date |-> date, tz |-> tz,
              availableSlots |-> availableSlots(date, tz)], "Success")
  /\ UNCHANGED <<store, active, now, inflight, timers>>

\* String.prototype.toLowerCase on the package names the clients send.
toLowerCase(s) ==
  CASE s = "Basic Consultation" -> "basic consultation"
    [] s = "Premium Consultation" -> "premium consultation"
    [] s = "Advanced Consultation" -> "advanced consultation"
    [] s = "ADVANCED" -> "advanced"
    [] s = "Premium" -> "premium"
    [] OTHER -> s

packageMapping ==
  [n \in {"Basic Consultation", "Premium Consultation",
          "Advanced Consultation", "basic", "premium", "advanced"} |->
     CASE n \in {"Basic Consultation", "basic"} -> "basic"
       [] n \in {"Premium Consultation", "premium"} -> "premium"
       [] OTHER -> "advanced"]

\* packageMapping[packageInfo.name] || packageInfo.name?.toLowerCase()
mappedPackage(name) ==
  IF name \in DOMAIN packageMapping THEN packageMapping[name]
  ELSE toLowerCase(name)

PackageNames ==
  {"Premium Consultation", "premium consultation", "advanced", "ADVANCED",
   "basic", "gold"}

\* Request bodies of the booking operation.  A missing field is NULL
\* (NoTime for the date); package is the object {name, price, duration}.
FullBody(n) ==
  [appointmentDate |-> BookedDate, appointmentTime |-> "17:00",
   consultationType |-> "career", hasPackage |-> TRUE,
   package |-> [name |-> n, price |-> 500, duration |-> 30]]

CreateBodies ==
  {FullBody(n) : n \in PackageNames}
  \cup
  {[FullBody("basic") EXCEPT !.appointmentDate = NoTime],
   [FullBody("basic") EXCEPT !.appointmentTime = NULL],
   [FullBody("basic") EXCEPT !.consultationType = NULL],
   [FullBody("basic") EXCEPT !.hasPackage = FALSE]}

\* !appointmentDate || !appointmentTime || !consultationType || !packageInfo
MissingField(body) ==
  \/ body.appointmentDate = NoTime
  \/ body.appointmentTime = NULL
  \/ body.consultationType = NULL
  \/ ~body.hasPackage

\* POST /api/appointments.  After the two validations the handler calls
\* appointment.save() on the const appointment that is declared further
\* down: the read throws a ReferenceError, the catch block answers 500 and
\* the statements that send the notification to the operator and that build
\* and save the document are never reached.
Create(u, body) ==
  /\ Accept
  /\ authenticate(u)
  /\ IF MissingField(body)
       THEN Respond("Create", u, 0, body, "MissingField")
       ELSE IF mappedPackage(body.package.name) \notin {"basic", "premium", "advanced"}
         THEN Respond("Create", u, 0, body, "InvalidPackage")
         ELSE Respond("Create", u, 0, body, "ServerError")
  /\ UNCHANGED <<store, active, now, inflight, timers>>

CancelWindowHours == 2

\* (appointmentDate - now) / (1000 * 60 * 60): appointmentTime is not read.
hoursUntil(doc) == doc.appointmentDate - now

\* Variant of notOwner that lets an administrator pass.
notOwnerNorAdmin(u, doc) == doc.user # u /\ role(u) # "admin"

\* appointment.user.toString() !== req.user.id
notOwner(u, doc) == doc.user # u

\* The checks of the cancel handler in the order it makes them: the first
\* that fails is the answer, "ok" lets the handler go on.
CancelChecks(u, id) ==
  IF ~Exists(id) THEN "NotFound"
  ELSE IF notOwner(u, store[id]) THEN "Forbidden"
  ELSE IF hoursUntil(store[id]) < CancelWindowHours
          /\ store[id].status # "pending" THEN "TooLate"
  ELSE "ok"

\* Variant of CancelLoad that writes the cancellation before it answers a
\* failed check.
CancelLoadWritesFirst(u, id) ==
  /\ Accept
  /\ authenticate(u)
  /\ IF CancelChecks(u, id) # "ok"
       THEN /\ Respond("Cancel", u, id, NULL, CancelChecks(u, id))
            /\ store' = IF Exists(id)
                          THEN [store EXCEPT ![id].status = "cancelled",
                                             ![id].paymentStatus = "refunded"]
                          ELSE store
            /\ UNCHANGED inflight
       ELSE LET mutated == [store[id] EXCEPT !.status = "cancelled",
                                           !.paymentStatus = "refunded"]
            IN  /\ Suspend("Cancel", u, id, NULL,
                     Delta(mutated, ModifiedPaths(store[id], mutated)))
                /\ UNCHANGED <<store, resp>>
  /\ UNCHANGED <<active, now, timers>>

\* PUT /api/appointments/:id/cancel, up to the await of save().
CancelLoad(u, id) ==
  /\ Accept
  /\ authenticate(u)
  /\ IF CancelChecks(u, id) # "ok"
       THEN /\ Respond("Cancel", u, id, NULL, CancelChecks(u, id))
            /\ UNCHANGED inflight
       ELSE LET mutated == [store[id] EXCEPT !.status = "cancelled",
                                           !.paymentStatus = "refunded"]
            IN  /\ Suspend("Cancel", u, id, NULL,
                     Delta(mutated, ModifiedPaths(store[id], mutated)))
                /\ UNCHANGED resp
  /\ UNCHANGED <<store, active, now, timers>>

CancelSave == \E r \in Suspended : r.op = "Cancel" /\ Save(r)

\* Ratings and review texts the clients send; NoRating is a body without
\* rating, NULL a body without review.
Ratings == {NoRating, 1, 5, 6}
Reviews == {NULL, "good"}

\* !rating || rating < 1 || rating > 5
InvalidRating(rating) ==
  rating = NoRating \/ rating < RatingMin \/ rating > RatingMax

\* Variant of ReviewChecks that looks at the status before the owner.
ReviewChecksStatusFirst(u, id, rating) ==
  IF InvalidRating(rating) THEN "InvalidRating"
  ELSE IF ~Exists(id) THEN "NotFound"
  ELSE IF store[id].status # "completed" THEN "NotCompleted"
  ELSE IF store[id].user # u THEN "Forbidden"
  ELSE "ok"

\* The checks of the review handler in the order it makes them.
ReviewChecks(u, id, rating) ==
  IF InvalidRating(rating) THEN "InvalidRating"
  ELSE IF ~Exists(id) THEN "NotFound"
  ELSE IF notOwner(u, store[id]) THEN "Forbidden"
  ELSE IF store[id].status # "completed" THEN "NotCompleted"
  ELSE "ok"

\* POST /api/appointments/:id/review, up to the await of save().
ReviewLoad(u, id, rating, review) ==
  /\ Accept
  /\ authenticate(u)
  /\ IF ReviewChecks(u, id, rating) # "ok"
       THEN /\ Respond("SubmitReview", u, id, rating,
                       ReviewChecks(u, id, rating))
            /\ UNCHANGED inflight
       ELSE LET mutated ==
                  [store[id] EXCEPT !.rating = rating,
                     !.review = IF review = NULL THEN "" ELSE review]
            IN  /\ Suspend("SubmitReview", u, id, rating,
                     Delta(mutated, ModifiedPaths(store[id], mutated)))
                /\ UNCHANGED resp
  /\ UNCHANGED <<store, active, now, timers>>

ReviewSave == \E r \in Suspended : r.op = "SubmitReview" /\ Save(r)

\* --------------------------------------------------- routes/videoCall.js
\* Variant of isAuthorized that lets every authenticated user pass.
isAuthorizedAnyone(u, doc) == TRUE

\* appointment.user.toString() === req.user.id || req.user.role === 'admin'
isAuthorized(u, doc) == doc.user = u \/ role(u) = "admin"

\* Variant of threw that swallows the error of the bridge.
threwSwallowed(call) == FALSE

\* The bridge call ended in `throw new Error(...)`: the handler's catch
\* block answers 500.
threw(call) == ~call.ok

\* POST /api/video-call/create-room/:appointmentId, up to the await of
\* save().  bridgeOk is the outcome of dailyService.createRoom.
CreateRoomLoad(u, id, bridgeOk) ==
  /\ Accept
  /\ IF ~auth(u)
       THEN /\ Respond("CreateRoom", u, id, NULL, "Unauthenticated")
            /\ UNCHANGED inflight
       ELSE IF ~Exists(id)
         THEN /\ Respond("CreateRoom", u, id, NULL, "NotFound")
              /\ UNCHANGED inflight
         ELSE IF ~isAuthorized(u, store[id])
           THEN /\ Respond("CreateRoom", u, id, NULL, "Forbidden")
                /\ UNCHANGED inflight
           ELSE IF threw(createRoom(id, bridgeOk))
             THEN /\ RespondWith("CreateRoom", u, id, NULL,
                                 "RoomProvisioningFailed",
                                 createRoom(id, bridgeOk))
                  /\ UNCHANGED inflight
             ELSE LET mutated ==
                        [store[id] EXCEPT !.roomName = RoomNameOf(id),
                           !.roomUrl = RoomUrlOf(id), !.isActive = FALSE,
                           !.startedAt = NoTime, !.endedAt = NoTime]
                  IN  /\ SuspendWith("CreateRoom", u, id, NULL,
                           Delta(mutated,
                                 ModifiedPathsNested(store[id], mutated)),
                           createRoom(id, bridgeOk))
                      /\ UNCHANGED resp
  /\ UNCHANGED <<store, active, now, timers>>

CreateRoomSave == \E r \in Suspended : r.op = "CreateRoom" /\ Save(r)

\* Variant of roomMissing that does not look at the stored room name.
roomMissingIgnoresName(id) == ~Exists(id)

\* !appointment || !appointment.videoCall?.roomName
roomMissing(id) == ~Exists(id) \/ store[id].roomName = NoRoom

\* req.user.role === 'admin' ? 'admin' : 'participant'
userRole(u) == IF role(u) = "admin" THEN "admin" ELSE "participant"

\* GET /api/video-call/meeting-token/:appointmentId.  The answer carries
\* the role the token was requested for.
IssueMeetingToken(u, id, bridgeOk) ==
  /\ Accept
  /\ IF ~auth(u)
       THEN Respond("IssueMeetingToken", u, id, NULL, "Unauthenticated")
       ELSE IF roomMissing(id)
         THEN Respond("IssueMeetingToken", u, id, NULL, "NotFound")
         ELSE IF ~isAuthorized(u, store[id])
           THEN Respond("IssueMeetingToken", u, id, NULL, "Forbidden")
           ELSE LET call == createMeetingToken(store[id].roomName,
                                               userRole(u), bridgeOk)
                IN  IF threw(call)
                      THEN RespondWith("IssueMeetingToken", u, id, NULL,
                                       "ServerError", call)
                      ELSE RespondWith("IssueMeetingToken", u, id,
                                       userRole(u), "Success", call)
  /\ UNCHANGED <<store, active, now, inflight, timers>>

TeardownDelayHours == 1

\* Call states the clients send in the body of call-status.
CallStatuses == {"started", "ended", "paused"}

\* Variant of SetCallStatusLoad that starts no timer.
SetCallStatusLoadNoTimer(u, id, status) ==
  /\ Accept
  /\ IF ~auth(u)
       THEN /\ Respond("SetCallStatus", u, id, status, "Unauthenticated")
            /\ UNCHANGED inflight
       ELSE IF ~Exists(id)
         THEN /\ Respond("SetCallStatus", u, id, status, "NotFound")
              /\ UNCHANGED inflight
         ELSE LET mutated ==
                    CASE status = "started" ->
                           [store[id] EXCEPT !.isActive = TRUE,
                              !.startedAt = now, !.status = "in-progress"]
                      [] status = "ended" ->
                           [store[id] EXCEPT !.isActive = FALSE,
                              !.endedAt = now, !.status = "completed"]
                      [] OTHER -> store[id]
              IN  /\ Suspend("SetCallStatus", u, id, status,
                       Delta(mutated, ModifiedPaths(store[id], mutated)))
                  /\ UNCHANGED resp
  /\ UNCHANGED <<store, active, now, timers>>

\* PUT /api/video-call/call-status/:appointmentId, up to the await of
\* save().  The teardown timer is set before save() is called.
SetCallStatusLoad(u, id, status) ==
  /\ Accept
  /\ IF ~auth(u)
       THEN /\ Respond("SetCallStatus", u, id, status, "Unauthenticated")
            /\ UNCHANGED <<inflight, timers>>
       ELSE IF ~Exists(id)
         THEN /\ Respond("SetCallStatus", u, id, status, "NotFound")
              /\ UNCHANGED <<inflight, timers>>
         ELSE LET mutated ==
                    CASE status = "started" ->
                           [store[id] EXCEPT !.isActive = TRUE,
                              !.startedAt = now, !.status = "in-progress"]
                      [] status = "ended" ->
                           [store[id] EXCEPT !.isActive = FALSE,
                              !.endedAt = now, !.status = "completed"]
                      [] OTHER -> store[id]
              IN  /\ Suspend("SetCallStatus", u, id, status,
                       Delta(mutated, ModifiedPaths(store[id], mutated)))
                  /\ timers' = IF status = "ended"
                                 THEN timers \cup
                                        {[roomName |-> store[id].roomName,
                                          due |-> now + TeardownDelayHours]}
                                 ELSE timers
                  /\ UNCHANGED resp
  /\ UNCHANGED <<store, active, now>>

\* The save() of call-status, the handler that has started a timer before
\* it: the store carries out the write or answers with an error.
SetCallStatusSave ==
  \E r \in Suspended, writeOk \in BOOLEAN :
    r.op = "SetCallStatus" /\ SaveWith(r, writeOk)

\* dailyService.deleteRoom(roomName): DELETE /rooms/:roomName.
deleteRoom(roomName, ok) ==
  [fn |-> "deleteRoom", roomName |-> roomName, is_owner |-> FALSE,
   enable_recording |-> FALSE, ok |-> ok]

\* deleteRoom catches the error of the provider and logs it: the promise it
\* returns is never rejected.
deleteRoomThrew(call) == FALSE

\* The setTimeout callback, run when the delay has passed: it calls
\* deleteRoom for the room name of the document the handler loaded; an
\* error would be caught and logged by the callback.
Teardown(bridgeOk) ==
  \E t \in timers :
    /\ now >= t.due
    /\ timers' = timers \ {t}
    /\ deleteRoomThrew(deleteRoom(t.roomName, bridgeOk)) \in BOOLEAN
    /\ UNCHANGED <<store, active, now, inflight, budget, resp>>

\* ----------------------------------------------------- routes/payments.js
\* The payment routes are mounted behind auth and then run authenticate.
\* razorpayOrderId, razorpayPaymentId and paidAt are not paths of the
\* schema: the strict schema drops them from every write.

\* POST /api/payments/create-order, up to the await of save().
CreateOrderLoad(u, id) ==
  /\ Accept
  /\ IF ~auth(u)
       THEN /\ Respond("CreateOrder", u, id, NULL, "Unauthenticated")
            /\ UNCHANGED inflight
       ELSE IF ~Exists(id)
         THEN /\ Respond("CreateOrder", u, id, NULL, "NotFound")
              /\ UNCHANGED inflight
         ELSE IF notOwner(u, store[id])
           THEN /\ Respond("CreateOrder", u, id, NULL, "Forbidden")
                /\ UNCHANGED inflight
           ELSE /\ Suspend("CreateOrder", u, id, NULL,
                           Delta(store[id], {}))
                /\ UNCHANGED resp
  /\ UNCHANGED <<store, active, now, timers>>

CreateOrderSave == \E r \in Suspended : r.op = "CreateOrder" /\ Save(r)

\* findByIdAndUpdate(id, update): one atomic $set without validation; an
\* id that resolves to nothing is not an error.
findByIdAndUpdate(id, update) ==
  store' = IF Exists(id)
             THEN [store EXCEPT ![id] = ApplyUpdate(@, update)]
             ELSE store

\* POST /api/payments/verify
VerifyPayment(u, id) ==
  /\ Accept
  /\ IF ~auth(u)
       THEN /\ Respond("VerifyPayment", u, id, NULL, "Unauthenticated")
            /\ UNCHANGED store
       ELSE /\ findByIdAndUpdate(id, [paymentStatus |-> "completed",
                                      status |-> "confirmed"])
            /\ Respond("VerifyPayment", u, id, NULL, "Success")
  /\ UNCHANGED <<active, now, inflight, timers>>

\* POST /api/payments/failed
PaymentFailed(u, id) ==
  /\ Accept
  /\ IF ~auth(u)
       THEN /\ Respond("PaymentFailed", u, id, NULL, "Unauthenticated")
            /\ UNCHANGED store
       ELSE /\ findByIdAndUpdate(id, [paymentStatus |-> "failed",
                                      status |-> "cancelled"])
            /\ Respond("PaymentFailed", u, id, NULL, "Success")
  /\ UNCHANGED <<active, now, inflight, timers>>

\* -------------------------------------------------------- routes/admin.js
\* Status values the administrators send.
OverrideTargets == StatusEnum \cup {"in-progress"}

\* Variant of overridePayment that sets the payment back to pending with
\* the status.
overridePaymentResets(status, paymentStatus) ==
  IF status = "pending" THEN "pending"
  ELSE IF status = "confirmed" /\ paymentStatus = "pending"
    THEN "completed" ELSE paymentStatus

\* Variant of overridePayment that completes the payment on every
\* confirmation.
overridePaymentAlways(status, paymentStatus) ==
  IF status = "confirmed" THEN "completed" ELSE paymentStatus

\* Variant of overridePayment that leaves paymentStatus as it is.
overridePaymentKeeps(status, paymentStatus) == paymentStatus

\* if (status === 'confirmed' && appointment.paymentStatus === 'pending')
\*   appointment.paymentStatus = 'completed'
overridePayment(status, paymentStatus) ==
  IF status = "confirmed" /\ paymentStatus = "pending"
    THEN "completed" ELSE paymentStatus

\* PUT /api/admin/appointments/:id/status, up to the await of save().
AdminStatusLoad(u, id, status) ==
  /\ Accept
  /\ IF ~auth(u)
       THEN /\ Respond("AdminStatus", u, id, status, "Unauthenticated")
            /\ UNCHANGED inflight
       ELSE IF ~adminOnly(u)
         THEN /\ Respond("AdminStatus", u, id, status, "Forbidden")
              /\ UNCHANGED inflight
         ELSE IF status \notin {"pending", "confirmed", "completed", "cancelled"}
           THEN /\ Respond("AdminStatus", u, id, status, "InvalidStatus")
                /\ UNCHANGED inflight
           ELSE IF ~Exists(id)
             THEN /\ Respond("AdminStatus", u, id, status, "NotFound")
                  /\ UNCHANGED inflight
             ELSE LET mutated ==
                        [store[id] EXCEPT !.status = status,
                           !.paymentStatus = overridePayment(status, @)]
                  IN  /\ Suspend("AdminStatus", u, id, status,
                           Delta(mutated, ModifiedPaths(store[id], mutated)))
                      /\ UNCHANGED resp
  /\ UNCHANGED <<store, active, now, timers>>

AdminStatusSave == \E r \in Suspended : r.op = "AdminStatus" /\ Save(r)

\* ------------------------------------- DELETE /api/user/account (user routes)
\* countDocuments({user, appointmentDate: {$gte: now}, status: 'confirmed'})
upcomingAppointments(u) ==
  Cardinality({id \in DOMAIN store :
                 /\ store[id].user = u
                 /\ store[id].appointmentDate >= now
                 /\ store[id].status = "confirmed"})

\* Up to the await of updateMany: the password check and the count.
DeleteAccountCheck(u, passwordOk) ==
  /\ Accept
  /\ IF ~auth(u)
       THEN /\ Respond("DeleteAccount", u, 0, NULL, "Unauthenticated")
            /\ UNCHANGED inflight
       ELSE IF ~clientOnly(u)
         THEN /\ Respond("DeleteAccount", u, 0, NULL, "Forbidden")
              /\ UNCHANGED inflight
         ELSE IF ~passwordOk
           THEN /\ Respond("DeleteAccount", u, 0, NULL, "IncorrectPassword")
                /\ UNCHANGED inflight
           ELSE IF upcomingAppointments(u) > 0
             THEN /\ Respond("DeleteAccount", u, 0, NULL, "HasUpcoming")
                  /\ UNCHANGED inflight
             ELSE /\ Suspend("DeleteAccount", u, 0, "updateMany", <<>>)
                  /\ UNCHANGED resp
  /\ UNCHANGED <<store, active, now, timers>>

\* Variant of DeleteAccountCancelPending that removes the pending
\* appointments of the user from the collection.
DeleteAccountRemovePending ==
  \E r \in Suspended :
    /\ r.op = "DeleteAccount" /\ r.arg = "updateMany"
    /\ store' = [id \in {i \in DOMAIN store :
                           ~(store[i].user = r.actor
                             /\ store[i].status = "pending")} |-> store[id]]
    /\ inflight' = (inflight (-) SetToBag({r}))
                      (+) SetToBag({[r EXCEPT !.arg = "user.save"]})
    /\ UNCHANGED <<active, now, timers, budget, resp>>

\* updateMany({user, status: 'pending'}, {status: 'cancelled', notes})
DeleteAccountCancelPending ==
  \E r \in Suspended :
    /\ r.op = "DeleteAccount" /\ r.arg = "updateMany"
    /\ store' = [id \in DOMAIN store |->
                   IF store[id].user = r.actor /\ store[id].status = "pending"
                     THEN ApplyUpdate(store[id],
                            [status |-> "cancelled",
                             notes |-> "Cancelled due to account deletion"])
                     ELSE store[id]]
    /\ inflight' = (inflight (-) SetToBag({r}))
                      (+) SetToBag({[r EXCEPT !.arg = "user.save"]})
    /\ UNCHANGED <<active, now, timers, budget, resp>>

\* user.isActive = false; user.save()
DeleteAccountDeactivate ==
  \E r \in Suspended :
    /\ r.op = "DeleteAccount" /\ r.arg = "user.save"
    /\ active' = active \ {r.actor}
    /\ Resume(r)
    /\ Respond("DeleteAccount", r.actor, 0, NULL, "Success")
    /\ UNCHANGED <<store, now, timers, budget>>

\* ------------------------------------------------------- the state machine
\* The store holds a booking of u1 as the booking operation builds it; u2 is
\* another client and adm an administrator.
InitStore ==
  /\ store = [id \in AptIds |->
                NewAppointment("u1", BookedDate, "17:00", "basic", 500, 30)]
  /\ active = Users
  /\ now = 0
  /\ inflight = EmptyBag
  /\ timers = {}

\* Runs that record every response.
Init == InitStore /\ budget = MaxObserved /\ resp = NoResp

\* Longer runs that do not record the responses.
LifecycleInit == InitStore /\ budget = MaxReq /\ resp = Unrecorded

Next ==
  \/ Tick
  \/ \E date \in SlotDates, tz \in TimeZoneOffsets : AvailableSlots(date, tz)
  \/ \E u \in Users, body \in CreateBodies : Create(u, body)
  \/ \E u \in Users, id \in ReqIds : CancelLoad(u, id)
  \/ CancelSave
  \/ \E u \in Users, id \in ReqIds, rating \in Ratings, review \in Reviews :
       ReviewLoad(u, id, rating, review)
  \/ ReviewSave
  \/ \E u \in Users, id \in ReqIds, ok \in BOOLEAN : CreateRoomLoad(u, id, ok)
  \/ CreateRoomSave
  \/ \E u \in Users, id \in ReqIds, ok \in BOOLEAN : IssueMeetingToken(u, id, ok)
  \/ \E u \in Users, id \in ReqIds, st \in CallStatuses :
       SetCallStatusLoad(u, id, st)
  \/ SetCallStatusSave
  \/ \E ok \in BOOLEAN : Teardown(ok)
  \/ \E u \in Users, id \in ReqIds : CreateOrderLoad(u, id)
  \/ CreateOrderSave
  \/ \E u \in Users, id \in ReqIds : VerifyPayment(u, id)
  \/ \E u \in Users, id \in ReqIds : PaymentFailed(u, id)
  \/ \E u \in Users, id \in ReqIds, st \in OverrideTargets :
       AdminStatusLoad(u, id, st)
  \/ AdminStatusSave
  \/ \E u \in Users, ok \in BOOLEAN : DeleteAccountCheck(u, ok)
  \/ DeleteAccountCancelPending
  \/ DeleteAccountDeactivate

Spec == Init /\ [][Next]_vars

LifecycleSpec == LifecycleInit /\ [][Next]_vars

\* The process keeps running: the clock advances and the event loop runs
\* the callbacks of the timers that are due.
FairInit == InitStore /\ budget = MaxFair /\ resp = Unrecorded

FairSpec ==
  /\ FairInit /\ [][Next]_vars
  /\ WF_vars(Tick)
  /\ WF_vars(\E ok \in BOOLEAN : Teardown(ok))

\* The requests that write status and paymentStatus from a document they
\* loaded or in one update: cancel, payment verify and the admin override.
RaceInit == InitStore /\ budget = MaxRace /\ resp = NoResp

RaceNext ==
  \/ \E u \in Users, id \in ReqIds : CancelLoad(u, id)
  \/ CancelSave
  \/ \E u \in Users, id \in ReqIds : VerifyPayment(u, id)
  \/ \E u \in Users, id \in ReqIds, st \in OverrideTargets :
       AdminStatusLoad(u, id, st)
  \/ AdminStatusSave

RaceSpec == RaceInit /\ [][RaceNext]_vars

TypeOK ==
  /\ DOMAIN store = AptIds
  /\ \A id \in AptIds : store[id].status \in StatusEnum
                        /\ store[id].paymentStatus \in PaymentStatusEnum
  /\ active \subseteq Users
  /\ now \in 0..(MaxNow + TeardownDelayHours)
  /\ \A t \in timers : t.due \in 1..(MaxNow + TeardownDelayHours)
  /\ budget \in 0..(MaxReq + MaxRace)

\* ================================================================ claims
\* A response to a request of operation op is sent in this step.
NewResponse(op) == resp'.seq # resp.seq /\ resp'.op = op

\* The handler r is suspended in this step.
NewlySuspended(r) == CopiesIn(r, inflight') > CopiesIn(r, inflight)

\* C1: a Create by an authenticated user with date, time, consultationType
\* and a package name of the synonym table succeeds and persists exactly
\* one new appointment, owned by that user, pending/pending, with the
\* amount and duration of the package; the store grows by one.
C1_CreatePersistsOne ==
  [][ ( /\ NewResponse("Create")
        /\ ~MissingField(resp'.arg)
        /\ resp'.arg.package.name \in DOMAIN packageMapping )
      => ( /\ resp'.outcome = "Success"
           /\ Cardinality(DOMAIN store') = Cardinality(DOMAIN store) + 1
           /\ \E id \in DOMAIN store' \ DOMAIN store :
                store'[id] =
                  NewAppointment(resp'.actor, resp'.arg.appointmentDate,
                    resp'.arg.appointmentTime,
                    packageMapping[resp'.arg.package.name],
                    resp'.arg.package.price, resp'.arg.package.duration) )
    ]_vars

\* Minutes from now to the scheduled start: the appointment date plus the
\* time of day of its slot.
MinutesToStart(doc) ==
  doc.appointmentDate * 60 + SlotMinutes(doc.appointmentTime) - now * 60

\* C2: a Cancel by the owner is answered TooLate exactly when fewer than 2
\* hours remain before the scheduled start (date plus time-of-day slot) and
\* the status is not pending; otherwise it goes through and the record
\* becomes cancelled/refunded; a rejected Cancel leaves the record unchanged.
C2_CancelTooLateIff ==
  [][ /\ ( /\ NewResponse("Cancel")
           /\ resp'.apt \in DOMAIN store
           /\ resp'.outcome = "TooLate" )
         => /\ MinutesToStart(store[resp'.apt]) < 120
            /\ store[resp'.apt].status # "pending"
            /\ store' = store
      /\ \A r \in BagToSet(inflight') :
           (r.op = "Cancel" /\ NewlySuspended(r))
             => ~( /\ MinutesToStart(store[r.apt]) < 120
                   /\ store[r.apt].status # "pending" )
      /\ ( /\ NewResponse("Cancel")
           /\ resp'.apt \in DOMAIN store
           /\ resp'.outcome \notin {"TooLate", "Forbidden"} )
         => /\ resp'.outcome = "Success"
            /\ store'[resp'.apt].status = "cancelled"
            /\ store'[resp'.apt].paymentStatus = "refunded"
    ]_vars

\* C3: on a pending or confirmed appointment SetCallStatus(started) succeeds
\* and stores in-progress, isActive and startedAt; SetCallStatus(ended) on
\* the in-progress appointment succeeds and stores completed, not active
\* and an endedAt later than startedAt.
C3_StartedThenEnded ==
  [][ ( /\ NewResponse("SetCallStatus")
        /\ resp'.apt \in DOMAIN store
        /\ resp'.outcome # "Unauthenticated" )
      => /\ ( /\ resp'.arg = "started"
              /\ store[resp'.apt].status \in {"pending", "confirmed"} )
            => /\ resp'.outcome = "Success"
               /\ store'[resp'.apt].status = "in-progress"
               /\ store'[resp'.apt].isActive
               /\ store'[resp'.apt].startedAt # NoTime
         /\ ( /\ resp'.arg = "ended"
              /\ store[resp'.apt].status = "in-progress" )
            => /\ resp'.outcome = "Success"
               /\ store'[resp'.apt].status = "completed"
               /\ ~store'[resp'.apt].isActive
               /\ store'[resp'.apt].endedAt # NoTime
               /\ store'[resp'.apt].endedAt > store'[resp'.apt].startedAt
    ]_vars

\* C4: once the stored status is completed or cancelled no step changes it.
C4_TerminalStatusStays ==
  [][ \A id \in DOMAIN store :
        store[id].status \in {"completed", "cancelled"}
          => store'[id].status = store[id].status ]_vars

\* C5: no stored appointment is confirmed while its paymentStatus is
\* pending, whatever the requests and however they interleave.
C5_NoConfirmedWithPendingPayment ==
  \A id \in DOMAIN store :
    ~(store[id].status = "confirmed" /\ store[id].paymentStatus = "pending")

C5_Witness ==
  \E id \in DOMAIN store :
    store[id].status = "confirmed" /\ store[id].paymentStatus = "completed"

\* C6: a step that answers a request and changes a stored appointment is a
\* request of that appointment's owner or of an administrator.
C6_WritesByOwnerOrAdmin ==
  [][ \A id \in DOMAIN store :
        (resp'.seq # resp.seq /\ store'[id] # store[id])
          => (resp'.actor = store[id].user \/ role(resp'.actor) = "admin")
    ]_vars

\* The failures a request is answered with before the handler writes.
Rejections ==
  {"MissingField", "InvalidPackage", "InvalidRating", "InvalidStatus",
   "Forbidden", "Unauthenticated", "NotFound", "TooLate", "NotCompleted"}

\* C7: when a Create, Cancel, SubmitReview, CreateRoom, IssueMeetingToken or
\* admin status override is rejected for its input or its authorization,
\* the store is the same before and after the step that answers it.
C7_RejectionWritesNothing ==
  [][ ( /\ resp'.seq # resp.seq
        /\ resp'.op \in {"Create", "Cancel", "SubmitReview", "CreateRoom",
                         "IssueMeetingToken", "AdminStatus"}
        /\ resp'.outcome \in Rejections )
      => store' = store ]_vars

C7_Witness ==
  /\ resp.op = "Cancel"
  /\ resp.outcome = "Forbidden"
  /\ resp.apt \in DOMAIN store
  /\ store[resp.apt].status = "confirmed"

\* C8: Cancel answers NotFound for an id that resolves to nothing and
\* Forbidden whenever the acting user is not the owner, administrators
\* included; such a Cancel is never carried on and the store is unchanged.
C8_CancelOwnerOnly ==
  [][ /\ NewResponse("Cancel")
         => /\ resp'.apt \notin DOMAIN store => resp'.outcome = "NotFound"
            /\ ( /\ resp'.apt \in DOMAIN store
                 /\ store[resp'.apt].user # resp'.actor )
               => resp'.outcome = "Forbidden"
            /\ resp'.outcome \in {"NotFound", "Forbidden"} => store' = store
      /\ \A r \in BagToSet(inflight') :
           (r.op = "Cancel" /\ NewlySuspended(r))
             => (r.apt \in DOMAIN store /\ store[r.apt].user = r.actor)
    ]_vars

C8_Witness ==
  /\ resp.op = "Cancel"
  /\ resp.actor \in Admins
  /\ resp.apt \in DOMAIN store
  /\ resp.outcome = "Forbidden"

\* The first precondition of SubmitReview that fails, in the order
\* InvalidRating, NotFound, Forbidden, NotCompleted.
FirstReviewFailure(u, id, rating) ==
  IF rating = NoRating \/ rating < 1 \/ rating > 5 THEN "InvalidRating"
  ELSE IF id \notin DOMAIN store THEN "NotFound"
  ELSE IF store[id].user # u THEN "Forbidden"
  ELSE IF store[id].status # "completed" THEN "NotCompleted"
  ELSE "none"

\* C9: a rejected SubmitReview reports the first failing precondition in
\* the order InvalidRating, NotFound, Forbidden, NotCompleted, and a
\* SubmitReview is carried on only when none of them fails.
C9_ReviewCheckOrder ==
  [][ /\ (NewResponse("SubmitReview") /\ resp'.outcome # "Success")
         => resp'.outcome =
              FirstReviewFailure(resp'.actor, resp'.apt, resp'.arg)
      /\ \A r \in BagToSet(inflight') :
           (r.op = "SubmitReview" /\ NewlySuspended(r))
             => FirstReviewFailure(r.actor, r.apt, r.arg) = "none"
    ]_vars

C9_Witness ==
  /\ resp.op = "SubmitReview"
  /\ resp.outcome = "Forbidden"
  /\ resp.apt \in DOMAIN store
  /\ store[resp.apt].user # resp.actor
  /\ store[resp.apt].status # "completed"

\* C10: a step that changes the stored rating or review of an appointment
\* is taken while the stored status of that appointment is completed, and
\* the rating it stores lies in 1..5.
C10_ReviewOnlyWhileCompleted ==
  [][ \A id \in DOMAIN store :
        ( \/ store'[id].rating # store[id].rating
          \/ store'[id].review # store[id].review )
        => /\ store[id].status = "completed"
           /\ store'[id].rating >= 1 /\ store'[id].rating <= 5
    ]_vars

\* The suspended handler r runs its save() in this step.
Resumed(r) == CopiesIn(r, inflight') < CopiesIn(r, inflight)

\* C11: once an appointment has a room name, the name and the url never
\* change, and the save() of a later CreateRoom on that appointment leaves
\* the whole record as it is (isActive, startedAt and endedAt included).
C11_RoomSetOnce ==
  [][ \A id \in DOMAIN store :
        store[id].roomName # NoRoom
          => /\ store'[id].roomName = store[id].roomName
             /\ store'[id].roomUrl = store[id].roomUrl
             /\ \A r \in Suspended :
                  (r.op = "CreateRoom" /\ r.apt = id /\ Resumed(r))
                    => store'[id] = store[id]
    ]_vars

\* C12: a CreateRoom whose bridge call fails is answered with a failure in
\* the same step, the store unchanged, and is never carried on to save();
\* an IssueMeetingToken whose bridge call fails is answered with a failure,
\* and no IssueMeetingToken, successful or not, changes the store.
C12_BridgeFailureWritesNothing ==
  [][ /\ ( /\ NewResponse("CreateRoom")
           /\ resp'.bridge.fn = "createRoom"
           /\ ~resp'.bridge.ok )
         => /\ resp'.outcome = "RoomProvisioningFailed"
            /\ store' = store
      /\ \A r \in BagToSet(inflight') :
           (r.op = "CreateRoom" /\ NewlySuspended(r))
             => (r.bridge.fn = "createRoom" /\ r.bridge.ok)
      /\ NewResponse("IssueMeetingToken")
         => /\ store' = store
            /\ ( resp'.bridge.fn = "createMeetingToken" /\ ~resp'.bridge.ok )
                 => resp'.outcome = "ServerError"
    ]_vars

C12_Witness ==
  /\ resp.op = "CreateRoom"
  /\ resp.outcome = "RoomProvisioningFailed"
  /\ ~resp.bridge.ok
  /\ resp.apt \in DOMAIN store
  /\ store[resp.apt].roomName # NoRoom

\* The response sent in this step answers a CreateRoom or IssueMeetingToken
\* of an authenticated user who is neither the owner of the stored
\* appointment nor an administrator.
OutsiderRoomRequest ==
  /\ resp'.seq # resp.seq
  /\ resp'.op \in {"CreateRoom", "IssueMeetingToken"}
  /\ resp'.outcome # "Unauthenticated"
  /\ resp'.apt \in DOMAIN store
  /\ resp'.actor # store[resp'.apt].user
  /\ role(resp'.actor) # "admin"

\* CreateRoom and IssueMeetingToken succeed, and CreateRoom is carried on to
\* save(), only for the owner or an administrator.
RoomAccessOnlyAuthorized ==
  /\ ( /\ resp'.seq # resp.seq
       /\ resp'.op \in {"CreateRoom", "IssueMeetingToken"}
       /\ resp'.outcome = "Success" )
     => /\ resp'.apt \in DOMAIN store
        /\ ( resp'.actor = store[resp'.apt].user
             \/ role(resp'.actor) = "admin" )
  /\ \A r \in BagToSet(inflight') :
       (r.op = "CreateRoom" /\ NewlySuspended(r))
         => (r.actor = store[r.apt].user \/ role(r.actor) = "admin")

\* C13 as stated: CreateRoom and IssueMeetingToken succeed only for the
\* owner or an administrator; any other authenticated user is answered
\* Forbidden, no bridge call is made and the store is unchanged.
C13_OutsiderForbidden ==
  [][ /\ RoomAccessOnlyAuthorized
      /\ OutsiderRoomRequest
         => /\ resp'.outcome = "Forbidden"
            /\ resp'.bridge = NoCall
            /\ store' = store
    ]_vars

\* C13 amended: as above, except that an IssueMeetingToken on an
\* appointment without a stored room name is answered NotFound, before the
\* authorization is looked at.
C13_OutsiderRejected ==
  [][ /\ RoomAccessOnlyAuthorized
      /\ OutsiderRoomRequest
         => /\ resp'.outcome =
                 IF /\ resp'.op = "IssueMeetingToken"
                    /\ store[resp'.apt].roomName = NoRoom
                   THEN "NotFound" ELSE "Forbidden"
            /\ resp'.bridge = NoCall
            /\ store' = store
    ]_vars

C13_Witness ==
  /\ resp.op = "IssueMeetingToken"
  /\ resp.outcome = "Forbidden"
  /\ resp.apt \in DOMAIN store
  /\ resp.actor # store[resp.apt].user
  /\ store[resp.apt].roomName # NoRoom

\* C14: an IssueMeetingToken succeeds only on an appointment with a stored
\* room name, and a room name is stored only by the step that answers a
\* CreateRoom with success; on an appointment without a room name, or on an
\* id that resolves to nothing, every authenticated IssueMeetingToken is
\* answered NotFound and no bridge call is made.
C14_TokenNeedsRoom ==
  [][ /\ NewResponse("IssueMeetingToken")
         => /\ resp'.outcome = "Success"
                 => /\ resp'.apt \in DOMAIN store
                    /\ store[resp'.apt].roomName # NoRoom
                    /\ resp'.bridge.roomName = store[resp'.apt].roomName
            /\ ( /\ resp'.outcome # "Unauthenticated"
                 /\ ( resp'.apt \notin DOMAIN store
                      \/ store[resp'.apt].roomName = NoRoom ) )
                 => (resp'.outcome = "NotFound" /\ resp'.bridge = NoCall)
            /\ resp'.outcome = "NotFound" => resp'.bridge = NoCall
      /\ \A id \in DOMAIN store :
           (store[id].roomName = NoRoom /\ store'[id].roomName # NoRoom)
             => /\ NewResponse("CreateRoom")
                /\ resp'.apt = id
                /\ resp'.outcome = "Success"
    ]_vars

C14_Witness ==
  /\ resp.op = "IssueMeetingToken"
  /\ resp.outcome = "Success"
  /\ resp.apt \in DOMAIN store
  /\ store[resp.apt].roomName # NoRoom

\* The weekday of a calendar date, 0 for Sunday.
WeekdayOf(date) == (4 + date) % 7

\* C15: the slots answered for a date are the empty sequence when the
\* date's weekday is Sunday and the six slots 17:00 .. 19:30 in this order
\* for every other date, whatever the store holds.
C15_SlotsForDate ==
  [][ NewResponse("AvailableSlots")
        => resp'.arg.availableSlots =
             IF WeekdayOf(resp'.arg.date) = 0 THEN <<>>
             ELSE <<"17:00", "17:30", "18:00", "18:30", "19:00", "19:30">>
    ]_vars

\* A package name with its letters in lower case, for the names the
\* clients send.
CaseFolded(name) ==
  CASE name = "Premium Consultation" -> "premium consultation"
    [] name = "ADVANCED" -> "advanced"
    [] OTHER -> name

\* The tier of a lower-case synonym, "none" for every other name.
SynonymTier(folded) ==
  CASE folded \in {"basic consultation", "basic"} -> "basic"
    [] folded \in {"premium consultation", "premium"} -> "premium"
    [] folded \in {"advanced consultation", "advanced"} -> "advanced"
    [] OTHER -> "none"

\* C16: a Create with all its fields is answered InvalidPackage exactly when
\* the package name, letter case aside, is no synonym of the table, and for
\* a synonym the handler resolves the name to the synonym's tier.
C16_PackageCaseInsensitive ==
  [][ ( NewResponse("Create") /\ ~MissingField(resp'.arg) )
      => LET name == resp'.arg.package.name
             tier == SynonymTier(CaseFolded(name))
         IN  /\ (resp'.outcome = "InvalidPackage") <=> (tier = "none")
             /\ tier # "none" => mappedPackage(name) = tier
    ]_vars

\* C17: a Create with all its fields and a package name of the synonym
\* table is answered with success and persists the new appointment,
\* whatever became of the notification to the operator.
C17_NotificationNeverFailsCreate ==
  [][ ( /\ NewResponse("Create")
        /\ ~MissingField(resp'.arg)
        /\ resp'.arg.package.name \in DOMAIN packageMapping )
      => /\ resp'.outcome = "Success"
         /\ \E id \in DOMAIN store' \ DOMAIN store :
              /\ store'[id].user = resp'.actor
              /\ store'[id].status = "pending"
    ]_vars

\* The paymentStatus the override is to leave behind for a target status
\* and the paymentStatus it read.
PaymentAfterOverride(target, paymentStatus) ==
  IF target = "confirmed" /\ paymentStatus = "pending"
    THEN "completed" ELSE paymentStatus

\* C18: the admin status override is carried on only for an administrator
\* and a target among pending, confirmed, completed, cancelled; of the
\* document it read it changes status to the target and paymentStatus to
\* completed exactly when the target is confirmed and the paymentStatus is
\* pending, and its save() writes these paths and nothing else; a request
\* of another role or with another target is rejected and nothing written.
C18_OverrideFrame ==
  [][ /\ \A r \in BagToSet(inflight') :
           (r.op = "AdminStatus" /\ NewlySuspended(r))
             => /\ role(r.actor) = "admin"
                /\ r.arg \in {"pending", "confirmed", "completed", "cancelled"}
                /\ r.apt \in DOMAIN store
                /\ DOMAIN r.delta \subseteq {"status", "paymentStatus"}
                /\ ApplyUpdate(store[r.apt], r.delta) =
                     [store[r.apt] EXCEPT
                        !.status = r.arg,
                        !.paymentStatus = PaymentAfterOverride(r.arg, @)]
                /\ ("paymentStatus" \in DOMAIN r.delta)
                     <=> ( r.arg = "confirmed"
                           /\ store[r.apt].paymentStatus = "pending" )
                /\ store' = store
      /\ \A r \in Suspended :
           (r.op = "AdminStatus" /\ Resumed(r))
             => /\ resp'.outcome = "Success"
                /\ store' = [store EXCEPT ![r.apt] = ApplyUpdate(@, r.delta)]
      /\ ( /\ NewResponse("AdminStatus")
           /\ resp'.outcome # "Unauthenticated"
           /\ ( role(resp'.actor) # "admin"
                \/ resp'.arg \notin {"pending", "confirmed", "completed",
                                     "cancelled"} ) )
         => /\ resp'.outcome \in {"Forbidden", "InvalidStatus"}
            /\ store' = store
    ]_vars

C18_Witness ==
  /\ resp.op = "AdminStatus"
  /\ resp.outcome = "Success"
  /\ resp.arg = "confirmed"
  /\ resp.apt \in DOMAIN store
  /\ store[resp.apt].status = "confirmed"
  /\ store[resp.apt].paymentStatus = "completed"

\* C19: an authenticated SetCallStatus with a status other than started or
\* ended, and an authenticated payment verify or payment failed for an id
\* that resolves to no appointment, are answered with a failure.
C19_NoSilentNoOp ==
  [][ /\ ( /\ NewResponse("SetCallStatus")
           /\ resp'.outcome # "Unauthenticated"
           /\ resp'.arg \notin {"started", "ended"} )
         => resp'.outcome # "Success"
      /\ ( /\ resp'.seq # resp.seq
           /\ resp'.op \in {"VerifyPayment", "PaymentFailed"}
           /\ resp'.outcome # "Unauthenticated"
           /\ resp'.apt \notin DOMAIN store )
         => resp'.outcome # "Success"
    ]_vars

\* C20: the token an IssueMeetingToken asks of the bridge has the owner
\* privileges and the recording permission exactly when the acting user is
\* an administrator; for every other user, the appointment's owner
\* included, it has neither; every token answered was asked of the bridge
\* for the stored room.
C20_ElevatedIffAdmin ==
  [][ NewResponse("IssueMeetingToken")
        => /\ resp'.bridge.fn = "createMeetingToken"
                => /\ resp'.bridge.is_owner <=> (role(resp'.actor) = "admin")
                   /\ resp'.bridge.enable_recording
                        <=> (role(resp'.actor) = "admin")
           /\ resp'.outcome = "Success"
                => /\ resp'.bridge.fn = "createMeetingToken"
                   /\ resp'.bridge.ok
                   /\ resp'.arg = (IF role(resp'.actor) = "admin"
                                     THEN "admin" ELSE "participant")
    ]_vars

C20_Witness ==
  /\ resp.op = "IssueMeetingToken"
  /\ resp.outcome = "Success"
  /\ resp.apt \in DOMAIN store
  /\ resp.actor = store[resp.apt].user
  /\ resp.bridge.fn = "createMeetingToken"
  /\ ~resp.bridge.is_owner
  /\ ~resp.bridge.enable_recording

\* C21: no step removes an appointment from the store or changes the user
\* an appointment belongs to; the updateMany of an account deletion changes
\* the pending appointments of the deleted user, and only these, to status
\* cancelled with the note of the reason, and the other steps of an account
\* deletion leave the store as it is.
C21_NeverHardDeleted ==
  [][ /\ DOMAIN store \subseteq DOMAIN store'
      /\ \A id \in DOMAIN store : store'[id].user = store[id].user
      /\ \A r \in Suspended :
           (r.op = "DeleteAccount" /\ Resumed(r))
             => IF r.arg = "updateMany"
                  THEN \A id \in DOMAIN store :
                         store'[id] =
                           IF /\ store[id].user = r.actor
                              /\ store[id].status = "pending"
                             THEN [store[id] EXCEPT
                                     !.status = "cancelled",
                                     !.notes = "Cancelled due to account deletion"]
                             ELSE store[id]
                  ELSE store' = store
      /\ \A r \in BagToSet(inflight') :
           (r.op = "DeleteAccount" /\ r.arg = "updateMany" /\ NewlySuspended(r))
             => store' = store
    ]_vars

C21_Witness ==
  \E id \in DOMAIN store :
    /\ store[id].user \notin active
    /\ store[id].status = "cancelled"
    /\ store[id].notes = "Cancelled due to account deletion"

\* C22: every SetCallStatus(ended) that is carried on to save(), and so
\* every one that is answered with success, has set the timer of the
\* teardown of the room of its appointment; while the process keeps running
\* every timer set is eventually run, calling deleteRoom; the step that runs
\* it, whether deleteRoom fails or not, changes no stored record, belongs
\* to no request and resumes no handler, so that it sends no response.
C22_TeardownEventuallyRuns ==
  /\ [][ \A r \in BagToSet(inflight') :
           (r.op = "SetCallStatus" /\ r.arg = "ended" /\ NewlySuspended(r))
             => [roomName |-> store[r.apt].roomName,
                 due |-> now + TeardownDelayHours] \in timers' ]_vars
  /\ []<>(timers = {})
  /\ [][ (timers' # timers /\ timers' \subseteq timers)
           => /\ store' = store
              /\ active' = active
              /\ resp' = resp
              /\ budget' = budget
              /\ inflight' = inflight ]_vars

\* The ended state of a call is stored, the hour of the delay has passed
\* and the timer has run.
C22_Witness ==
  \E id \in DOMAIN store :
    /\ store[id].status = "completed"
    /\ store[id].endedAt # NoTime
    /\ ~store[id].isActive
    /\ now >= store[id].endedAt + TeardownDelayHours
    /\ timers = {}
    /\ inflight = EmptyBag

\* C23: when the save() of a SetCallStatus(ended) fails and the request is
\* answered with a failure, no teardown timer set by that request (due one
\* delay after the end time the request recorded) is pending.
C23_TeardownOnlyAfterSuccess ==
  [][ \A r \in Suspended :
        ( /\ r.op = "SetCallStatus" /\ r.arg = "ended"
          /\ "endedAt" \in DOMAIN r.delta
          /\ Resumed(r)
          /\ resp'.outcome # "Success" )
        => \A t \in timers' : t.due # r.delta.endedAt + TeardownDelayHours
    ]_vars

\* C24: a step that answers a payment verify, a SetCallStatus or a Cancel
\* and changes the stored status of an appointment follows an edge of the
\* state machine: verify from pending to confirmed, started from confirmed
\* to in-progress, ended from in-progress to completed, Cancel from pending,
\* confirmed or in-progress to cancelled.
C24_StatusChangesAreEdges ==
  [][ \A id \in DOMAIN store :
        ( resp'.seq # resp.seq /\ store'[id].status # store[id].status )
        => /\ resp'.op = "VerifyPayment"
                => /\ store[id].status = "pending"
                   /\ store'[id].status = "confirmed"
           /\ (resp'.op = "SetCallStatus" /\ resp'.arg = "started")
                => /\ store[id].status = "confirmed"
                   /\ store'[id].status = "in-progress"
           /\ (resp'.op = "SetCallStatus" /\ resp'.arg = "ended")
                => /\ store[id].status = "in-progress"
                   /\ store'[id].status = "completed"
           /\ resp'.op = "Cancel"
                => /\ store[id].status \in {"pending", "confirmed", "in-progress"}
                   /\ store'[id].status = "cancelled"
    ]_vars

C26_DoubleBookingReachable ==
  [][ ( /\ NewResponse("Create")
        /\ ~MissingField(resp'.arg)
        /\ resp'.arg.package.name \in DOMAIN packageMapping
        /\ \E id \in DOMAIN store :
             /\ store[id].user # resp'.actor
             /\ store[id].status # "cancelled"
             /\ store[id].appointmentDate = resp'.arg.appointmentDate
             /\ store[id].appointmentTime = resp'.arg.appointmentTime )
      => /\ resp'.outcome = "Success"
         /\ \E a, b \in DOMAIN store' :
              /\ store'[a].user # store'[b].user
              /\ store'[a].appointmentDate = store'[b].appointmentDate
              /\ store'[a].appointmentTime = store'[b].appointmentTime
              /\ store'[a].status # "cancelled"
              /\ store'[b].status # "cancelled"
    ]_vars

\* C27: the save() of a Cancel replaces a stored status other than pending
\* by cancelled only when at least 2 hours remain, as the handler counts
\* them, at the time of the write.
C27_CancelRuleAtWrite ==
  [][ \A r \in Suspended :
        ( /\ r.op = "Cancel" /\ Resumed(r)
          /\ store[r.apt].status \notin {"pending", "cancelled"}
          /\ store'[r.apt].status = "cancelled" )
        => hoursUntil(store[r.apt]) >= CancelWindowHours
    ]_vars

\* The operations that create, cancel or review an appointment or change
\* its payment or call state.
OwnerOperations ==
  {"Create", "Cancel", "SubmitReview", "CreateOrder", "VerifyPayment",
   "PaymentFailed", "CreateRoom", "SetCallStatus"}

\* C28: a request of one of these operations that arrives with the token of
\* a user whose account is deactivated is neither answered with success nor
\* carried on to a save(), and the step that receives it writes nothing.
C28_DeletedUserLockedOut ==
  [][ budget' < budget
        => /\ \A r \in BagToSet(inflight') :
                (NewlySuspended(r) /\ r.op \in OwnerOperations)
                  => r.actor \in active
           /\ ( /\ resp'.seq # resp.seq
                /\ resp'.op \in OwnerOperations
                /\ resp'.actor \in Users \ active )
              => (resp'.outcome # "Success" /\ store' = store)
    ]_vars

\* C29: in the step that deactivates the account and answers the deletion
\* with success, the user owns no confirmed appointment whose date is still
\* to come and no pending appointment.
C29_DeletionLeavesNoLiveBooking ==
  [][ ( NewResponse("DeleteAccount") /\ resp'.outcome = "Success" )
      => \A id \in DOMAIN store' :
           store'[id].user = resp'.actor
             => /\ ~( store'[id].status = "confirmed"
                      /\ store'[id].appointmentDate >= now )
                /\ store'[id].status # "pending"
    ]_vars

\* C30: once the stored paymentStatus of an appointment is not pending, no
\* step sets it to pending.
C30_PaymentNeverBackToPending ==
  [][ \A id \in DOMAIN store :
        store[id].paymentStatus # "pending"
          => /\ id \in DOMAIN store'
             /\ store'[id].paymentStatus # "pending" ]_vars

\* The status has been set back to pending and the paymentStatus has not.
C30_Witness ==
  \E id \in DOMAIN store :
    /\ store[id].status = "pending"
    /\ store[id].paymentStatus = "refunded"

====
